---- MODULE Spec2Model ----
(***************************************************************************)
(* LavaFlow Mapper Suite: the FIRMS download/merge step                    *)
(* (FIRMS_download.py, process_download) and the breakthrough tracker      *)
(* (LavaFlow_speed.py, process_speed_data) fed by the daily summary of     *)
(* LavaFlow_mapper.py (get_layout: filter, distance, summary).             *)
(*                                                                         *)
(* Coordinates are fixed-point numbers in units of 0.00001 degree, the     *)
(* precision of the FIRMS wire format, so round(x, 4) is rounding to a     *)
(* multiple of 10 units.  A CSV cell is a record: k = "num" (v parsed),    *)
(* k = "text" (not parsable as a number) or k = "nan" (missing value).     *)
(***************************************************************************)
EXTENDS Integers, Sequences, FiniteSets, TLC

VARIABLES
    archive,   \* archive[src]: the file historical_<src>.csv, [exists, rows]
    pc,        \* position of process_download: "idle", "loop", "done", "raised"
    idx,       \* index into sources of the next source of the loop
    log,       \* the local list log of the current run
    upstream,  \* upstream[src]: the detections the FIRMS server holds for src
    last,      \* history: source, response and archive file of the last iteration
    filtered,  \* the filtered, distance-tagged detections of a mapper run
    dailyFile, \* the file max_distance_per_day_VIIRS.csv, [exists, rows]
    propFile,  \* the file LavaFlow_propagation.csv, [exists, rows]
    speedOut,  \* what the last process_speed_data call returned
    runs,      \* runs[w]: the process_download call of dashboard callback w
    cfg,       \* config.txt as load_global_config of LavaFlow_mapper returns it
    filteredFile, \* the file filter_VIIRS_combined.csv, [exists, rows]
    mapOut     \* how the last LavaFlow_mapper.get_layout call ended

-----------------------------------------------------------------------------
(* Bounds *)

MaxBatchLen == 2      \* rows in one FIRMS response of the first source
MaxFiltered == 3      \* detections that pass the filter of a mapper run
MaxArchived == 2      \* records in the SNPP archive a mapper run reads

-----------------------------------------------------------------------------
(* CSV cells and conversions *)

Num(v) == [k |-> "num", v |-> v]
Text   == [k |-> "text", v |-> 0]
NaN    == [k |-> "nan", v |-> 0]

\* pd.to_numeric(col, errors='coerce'): a cell that is no number becomes NaN
ToNumeric(c) == IF c.k = "num" THEN c ELSE NaN

\* Series.round(4) on 1e-5 degree units: nearest multiple of 10, ties to even
Round4(v) ==
    LET q == v \div 10
        r == v % 10
    IN  IF r < 5 THEN 10 * q
        ELSE IF r > 5 THEN 10 * (q + 1)
        ELSE IF q % 2 = 0 THEN 10 * q ELSE 10 * (q + 1)

RoundCell(c) == IF c.k = "num" THEN Num(Round4(c.v)) ELSE c

\* astype(str).str.zfill(4) of an integer HHMM value
Zfill4(n) == <<n \div 1000, (n \div 100) % 10, (n \div 10) % 10, n % 10>>

\* pd.read_csv turns the all-digit column "0930" back into the integer 930
ReadInt(s) == 1000 * s[1] + 100 * s[2] + 10 * s[3] + s[4]

\* pd.to_datetime of the wire format YYYY-MM-DD
ParseIso(s) == [year |-> s[1], month |-> s[2], day |-> s[3]]

\* pd.to_datetime(..., dayfirst=True) of DD/MM/YYYY
ParseDayFirst(s) == [year |-> s[3], month |-> s[2], day |-> s[1]]

\* dt.strftime('%d/%m/%Y')
Strftime(d) == <<d.day, d.month, d.year>>

-----------------------------------------------------------------------------
(* Sources and the rows a response can carry *)

sources == <<"VIIRS_SNPP_NRT", "VIIRS_NOAA21_NRT", "VIIRS_NOAA20_NRT", "MODIS_NRT">>
SourceIds == {sources[i] : i \in 1..Len(sources)}

WireDates == {<<2024, 1, 2>>, <<2024, 1, 3>>}
WireTimes == {930}
Latitudes == {Num(10), Num(14), Num(16), Text}
Longitudes == {Num(20), Text}
Frps == {Num(5), Text}
Tracks == {Num(3)}

AllRows == [acq_date : WireDates, acq_time : WireTimes, latitude : Latitudes,
            longitude : Longitudes, frp : Frps, track : Tracks]

BaseRow == [acq_date |-> <<2024, 1, 2>>, acq_time |-> 930, latitude |-> Num(10),
            longitude |-> Num(20), frp |-> Num(5), track |-> Num(3)]

Fields == {"acq_date", "acq_time", "latitude", "longitude", "frp", "track"}

\* rows that differ from BaseRow in at most one column
Rows == {r \in AllRows : Cardinality({f \in Fields : r[f] # BaseRow[f]}) <= 1}

SeqsUpTo(S, n) == UNION {[1..m -> S] : m \in 0..n}

\* the server's holdings: detections of every kind for the first source and
\* none for the others, or the one plain detection for each source
Upstreams ==
    {[s \in SourceIds |-> IF s = sources[1] THEN Rows ELSE {}],
     [s \in SourceIds |-> {BaseRow}]}

\* the CSV bodies a source can answer with: the header alone, or rows of its
\* holdings in any order and multiplicity
Bodies(src) ==
    SeqsUpTo(upstream[src], IF src = sources[1] THEN MaxBatchLen ELSE 1)

\* requests.get outcome: it raises, or answers with a status and a body;
\* a body is malformed (pd.read_csv or the column access raises) or rows
Responses(src) ==
    {[kind |-> k, rows |-> <<>>] : k \in {"raises", "http_error", "malformed"}}
    \cup {[kind |-> "csv", rows |-> b] : b \in Bodies(src)}

NoResponse == [kind |-> "none", rows |-> <<>>]
Absent == [exists |-> FALSE, rows |-> <<>>]

-----------------------------------------------------------------------------
(* The merge of process_download *)

MapSeq(s, F(_)) == [i \in 1..Len(s) |-> F(s[i])]

\* lines 121-122: acq_time zero-padded, acq_date parsed
PrepareRow(r) == [r EXCEPT !.acq_time = Zfill4(r.acq_time), !.acq_date = ParseIso(r.acq_date)]

\* lines 125-127: the archive read back, acq_time re-padded, acq_date parsed day first
ReadHistRow(r) ==
    [r EXCEPT !.acq_time = Zfill4(ReadInt(r.acq_time)), !.acq_date = ParseDayFirst(r.acq_date)]

\* lines 146-147: acq_date formatted DD/MM/YYYY on the way to the file
WriteRow(r) == [r EXCEPT !.acq_date = Strftime(r.acq_date)]

\* lines 129-130: history rows whose date is not in the batch
RefreshKeepsHistory(hist, new) == hist
RefreshHist(hist, new) ==
    LET dates_to_refresh == {new[i].acq_date : i \in 1..Len(new)}
    IN  SelectSeq(hist, LAMBDA r : r.acq_date \notin dates_to_refresh)

\* lines 133-135: latitude and longitude coerced, rows without either dropped
CoerceRow(r) ==
    [r EXCEPT !.latitude = ToNumeric(r.latitude), !.longitude = ToNumeric(r.longitude)]
DropNa(rows) ==
    SelectSeq(MapSeq(rows, CoerceRow),
              LAMBDA r : r.latitude.k = "num" /\ r.longitude.k = "num")

\* lines 137-141: the subset of drop_duplicates
DedupKey(r) == <<RoundCell(r.latitude), RoundCell(r.longitude), r.acq_date, r.acq_time>>

\* drop_duplicates(keep='first')
DropDuplicates(rows) ==
    LET keep(i) == \A j \in 1..(i - 1) : DedupKey(rows[j]) # DedupKey(rows[i])
        idxs == {i \in 1..Len(rows) : keep(i)}
        F[n \in 0..Len(rows)] ==
            IF n = 0 THEN <<>>
            ELSE IF n \in idxs THEN Append(F[n - 1], rows[n]) ELSE F[n - 1]
    IN  F[Len(rows)]

\* lines 124-144: df_final for a non-empty batch
MergeFinal(file, batch) ==
    LET df_new == MapSeq(batch, PrepareRow)
    IN  IF file.exists
        THEN LET df_hist == RefreshHist(MapSeq(file.rows, ReadHistRow), df_new)
                 df_combined == DropNa(df_hist \o df_new)
             IN  DropDuplicates(df_combined)
        ELSE df_new

\* line 147: df_final.to_csv(filename)
ToCsv(df_final) == [exists |-> TRUE, rows |-> MapSeq(df_final, WriteRow)]

LogEntry(src, kind, n, total) == [src |-> src, kind |-> kind, batch |-> n, total |-> total]

FailureKinds == {"raises", "http_error", "malformed"}

\* the file opened for writing before the response is checked
TryBlockWritesEarly(src, file, resp) ==
    IF resp.kind \in FailureKinds
    THEN [file |-> ToCsv(<<>>),
          entry |-> LogEntry(src, IF resp.kind = "http_error" THEN "api_error" ELSE "error", 0, 0)]
    ELSE IF resp.rows = <<>>
    THEN [file |-> file, entry |-> LogEntry(src, "no_data", 0, 0)]
    ELSE [file |-> ToCsv(MergeFinal(file, resp.rows)),
          entry |-> LogEntry(src, "merged", Len(resp.rows), Len(MergeFinal(file, resp.rows)))]

\* the df_new.empty test of lines 116-118 left out
TryBlockNoEmptyTest(src, file, resp) ==
    IF resp.kind \in FailureKinds
    THEN [file |-> file,
          entry |-> LogEntry(src, IF resp.kind = "http_error" THEN "api_error" ELSE "error", 0, 0)]
    ELSE [file |-> ToCsv(MergeFinal(file, resp.rows)),
          entry |-> LogEntry(src, "merged", Len(resp.rows), Len(MergeFinal(file, resp.rows)))]

\* lines 107-151: the try block of one source: the archive file it leaves and
\* the entry it appends to log
TryBlock(src, file, resp) ==
    CASE resp.kind = "raises" ->        \* line 109 raises, caught at line 150
            [file |-> file, entry |-> LogEntry(src, "error", 0, 0)]
      [] resp.kind = "http_error" ->    \* lines 111-113
            [file |-> file, entry |-> LogEntry(src, "api_error", 0, 0)]
      [] resp.kind = "malformed" ->     \* lines 115-122 raise, caught at line 150
            [file |-> file, entry |-> LogEntry(src, "error", 0, 0)]
      [] resp.kind = "csv" /\ resp.rows = <<>> ->     \* lines 116-118
            [file |-> file, entry |-> LogEntry(src, "no_data", 0, 0)]
      [] resp.kind = "csv" /\ resp.rows # <<>> ->     \* lines 120-148
            LET df_final == MergeFinal(file, resp.rows)
            IN  [file |-> ToCsv(df_final),
                 entry |-> LogEntry(src, "merged", Len(resp.rows), Len(df_final))]

-----------------------------------------------------------------------------
(* process_download as a state machine: one step per loop iteration *)

\* every source writing to the archive of the first one
filenameShared(src_id) == sources[1]

\* lines 98-103, 106: the archive file of a source; the four file names are
\* distinct, so a file is identified by the id of its source
filename(src_id) == src_id

\* the two overlapping process_download calls
Workers == {1, 2}

IdleRun ==
    [pc |-> "idle", idx |-> 0, resp |-> NoResponse, df_hist |-> Absent, log |-> <<>>,
     merged |-> [s \in SourceIds |-> <<>>]]

\* the archive a first download of the plain detection has left
ConcArchive0 ==
    [s \in SourceIds |-> IF s = sources[1] THEN ToCsv(MergeFinal(Absent, <<BaseRow>>))
                         ELSE Absent]

\* the server holds the plain detection and one of the next day for the
\* first source
ConcUpstream ==
    [s \in SourceIds |->
        IF s = sources[1] THEN {BaseRow, [BaseRow EXCEPT !.acq_date = <<2024, 1, 3>>]}
        ELSE {}]

\* a non-200 status, the header alone, or one row
ConcResponses(src) ==
    {[kind |-> "http_error", rows |-> <<>>]}
    \cup {[kind |-> "csv", rows |-> b] : b \in SeqsUpTo(upstream[src], 1)}

NoIteration == [src |-> "", resp |-> NoResponse, before |-> Absent]

DlInit ==
    /\ archive = [s \in SourceIds |-> Absent]
    /\ pc = "idle"
    /\ idx = 0
    /\ log = <<>>
    /\ last = NoIteration
    /\ upstream \in Upstreams

\* lines 85-105: configuration, bbox and dates; a bad value raises to the caller
StartDownload ==
    /\ pc \in {"idle", "done", "raised"}
    /\ \E preludeOk \in BOOLEAN :
        IF preludeOk
        THEN /\ pc' = "loop"
             /\ idx' = 1
        ELSE /\ pc' = "raised"
             /\ idx' = 0
    /\ log' = <<>>
    /\ last' = NoIteration
    /\ UNCHANGED <<archive, upstream, filtered, dailyFile, propFile, speedOut, runs,
                 cfg, filteredFile, mapOut>>

\* an exception of the loop body reaching the caller
AfterIterationUncaught(resp) ==
    IF resp.kind \in {"raises", "malformed"}
    THEN [pc |-> "raised", idx |-> 0]
    ELSE IF idx = Len(sources) THEN [pc |-> "done", idx |-> 0]
    ELSE [pc |-> "loop", idx |-> idx + 1]

\* lines 106, 113, 118, 150-153: every outcome goes on to the next source,
\* and the loop ends with the return of the log
AfterIteration(resp) ==
    IF idx = Len(sources) THEN [pc |-> "done", idx |-> 0]
    ELSE [pc |-> "loop", idx |-> idx + 1]

\* lines 106-151: one iteration of the loop, for sources[idx]
ProcessSource ==
    /\ pc = "loop"
    /\ \E resp \in Responses(sources[idx]) :
        LET src == sources[idx]
            out == TryBlock(src, archive[filename(src)], resp)
            nxt == AfterIteration(resp)
        IN  /\ last' = [src |-> src, resp |-> resp, before |-> archive[src]]
            /\ archive' = [archive EXCEPT ![filename(src)] = out.file]
            /\ log' = Append(log, out.entry)
            /\ pc' = nxt.pc
            /\ idx' = nxt.idx
    /\ UNCHANGED <<upstream, filtered, dailyFile, propFile, speedOut, runs,
                 cfg, filteredFile, mapOut>>

DlNext == StartDownload \/ ProcessSource

-----------------------------------------------------------------------------
(* The daily summary of LavaFlow_mapper.get_layout and the tracker          *)
(* process_speed_data of LavaFlow_speed.  distance_km is a fixed-point      *)
(* number or NaN; a date is [year, month, day].                             *)

\* load_and_tag_data: satellite name and source id of each archive pattern
configs == <<[name |-> "SNPP", id |-> 1], [name |-> "NOAA20", id |-> 2],
             [name |-> "NOAA21", id |-> 3]>>
Satellites == {configs[i].name : i \in 1..Len(configs)}
SourceOf(name) == (CHOOSE i \in 1..Len(configs) : configs[i].name = name)

Days == {[year |-> 2024, month |-> 1, day |-> d] : d \in {1, 2}}
Distances == {Num(0), Num(1), Num(2), Num(3), NaN}

\* the satellites whose archives hold detections that pass the filter
Observers == {"SNPP", "NOAA20"}

\* a row of filtered after line 96: only the columns the summary reads
TaggedRows == [date : Days, satellite : Observers, distance_km : Distances,
               frp : {Num(5)}, latitude : {Num(10)}, longitude : {Num(20)}]

\* days of one month in calendar order
Ordinal(d) == 372 * d.year + 31 * d.month + d.day

\* line 86: filtered is sorted by date
SortedByDate(rows) ==
    \A i \in 1..(Len(rows) - 1) : Ordinal(rows[i].date) <= Ordinal(rows[i + 1].date)

Filtereds == {f \in SeqsUpTo(TaggedRows, MaxFiltered) : SortedByDate(f)}

\* groups keyed by the date alone
NameRankFlat(n) == 1

\* string order of the satellite names, the order groupby sorts its keys in
NameRank(n) == CASE n = "NOAA20" -> 1 [] n = "NOAA21" -> 2 [] n = "SNPP" -> 3

\* the smallest value of a column in place of the largest
ColMin(cells) ==
    LET nums == {c.v : c \in {x \in cells : x.k = "num"}}
    IN  IF nums = {} THEN NaN ELSE Num(CHOOSE m \in nums : \A n \in nums : m <= n)

\* max of a column, NaN skipped; NaN when no value is left
ColMax(cells) ==
    LET nums == {c.v : c \in {x \in cells : x.k = "num"}}
    IN  IF nums = {} THEN NaN ELSE Num(CHOOSE m \in nums : \A n \in nums : n <= m)

\* 'first' of a groupby: the first value of the column that is not NaN
ColFirst(col) ==
    LET ok == {i \in 1..Len(col) : col[i].k = "num"}
    IN  IF ok = {} THEN NaN ELSE col[CHOOSE i \in ok : \A j \in ok : i <= j]

\* date_only written by to_csv as YYYY-MM-DD
IsoFormat(d) == <<d.year, d.month, d.day>>

\* lines 101-106: one row per (date_only, satellite) group, groups in key order
Summary(f) ==
    LET Key(r) == <<Ordinal(r.date), NameRank(r.satellite)>>
        Before(a, b) == a[1] < b[1] \/ (a[1] = b[1] /\ a[2] < b[2])
        heads == {i \in 1..Len(f) : \A j \in 1..(i - 1) : Key(f[j]) # Key(f[i])}
        Row(h) ==
            LET g == SelectSeq(f, LAMBDA r : Key(r) = Key(f[h]))
            IN  [date_only |-> IsoFormat(f[h].date),
                 satellite |-> f[h].satellite,
                 distance_km |-> ColMax({g[i].distance_km : i \in 1..Len(g)}),
                 frp |-> ColMax({g[i].frp : i \in 1..Len(g)}),
                 latitude |-> ColFirst([i \in 1..Len(g) |-> g[i].latitude]),
                 longitude |-> ColFirst([i \in 1..Len(g) |-> g[i].longitude]),
                 source |-> SourceOf(f[h].satellite)]
        Rank(h) == 1 + Cardinality({x \in heads : Before(Key(f[x]), Key(f[h]))})
    IN  [n \in 1..Cardinality(heads) |-> Row(CHOOSE h \in heads : Rank(h) = n)]

\* the hour of a timestamp; a date without a time is midnight
HourOf(d) == IF "hour" \in DOMAIN d THEN d.hour ELSE 0

\* hours of a timestamp on the scale of Ordinal
Hours(d) == 24 * Ordinal(d) + HourOf(d)

\* LavaFlow_speed line 46: pd.to_datetime of the column date_only, a date
\* YYYY-MM-DD or a date with an hour
ParseDateOnly(s) ==
    IF Len(s) = 4 THEN [year |-> s[1], month |-> s[2], day |-> s[3], hour |-> s[4]]
    ELSE ParseIso(s)

\* line 47: sort_values('date'), rows of one date kept in their order
SortValuesByDate(df) ==
    LET Insert(sorted, r) ==
            LET pos == Cardinality({i \in 1..Len(sorted) :
                                      Hours(sorted[i].date) <= Hours(r.date)})
            IN  SubSeq(sorted, 1, pos) \o <<r>> \o SubSeq(sorted, pos + 1, Len(sorted))
        F[n \in 0..Len(df)] == IF n = 0 THEN <<>> ELSE Insert(F[n - 1], df[n])
    IN  F[Len(df)]

\* line 50: cummax, NaN at a NaN row and skipped in the running maximum
CumMax(col) ==
    [i \in 1..Len(col) |->
        IF col[i].k # "num" THEN NaN ELSE ColMax({col[j] : j \in 1..i})]

\* line 53: shift(1, fill_value=0)
Shift1(col) == [i \in 1..Len(col) |-> IF i = 1 THEN Num(0) ELSE col[i - 1]]

\* a comparison with NaN is False
GreaterOrEqual(a, b) == a.k = "num" /\ b.k = "num" /\ a.v >= b.v
Greater(a, b) == a.k = "num" /\ b.k = "num" /\ a.v > b.v

\* hours between two dates
HoursBetween(d1, d2) == Hours(d2) - Hours(d1)

\* time over distance in place of distance over time
DivideInverted(a, b) ==
    IF a.k # "num" \/ b.k # "num" THEN NaN
    ELSE IF a.v = 0 THEN (IF b.v = 0 THEN NaN ELSE [k |-> "inf", v |-> 0])
    ELSE [k |-> "ratio", v |-> <<b.v, a.v>>]

\* a missing operand counted as a speed of 0
DivideFillZero(a, b) ==
    IF a.k # "num" \/ b.k # "num" THEN Num(0)
    ELSE IF b.v = 0 THEN (IF a.v = 0 THEN NaN ELSE [k |-> "inf", v |-> 0])
    ELSE [k |-> "ratio", v |-> <<a.v, b.v>>]

\* line 60: float division, x / 0 = inf for x > 0, NaN when an operand is NaN
Divide(a, b) ==
    IF a.k # "num" \/ b.k # "num" THEN NaN
    ELSE IF b.v = 0 THEN (IF a.v = 0 THEN NaN ELSE [k |-> "inf", v |-> 0])
    ELSE [k |-> "ratio", v |-> <<a.v, b.v>>]

\* the date of the row before row at[e] of df, emitted or not
PrevRowDate(df, at, e) == df[at[e] - 1].date

\* lines 54, 58: diff() runs over the dates of processed, the emitted rows
PrevDate(df, at, e) == df[at[e - 1]].date

\* lines 45-60: the frame processed of process_speed_data for the rows read
PooledBreakthroughs(rows) ==
    LET df == SortValuesByDate([i \in 1..Len(rows) |->
                  [date |-> ParseDateOnly(rows[i].date_only),
                   distance_km |-> rows[i].distance_km,
                   satellite |-> rows[i].satellite]])
        max_distance == CumMax([i \in 1..Len(df) |-> df[i].distance_km])
        prev_max == Shift1(max_distance)
        kept == {i \in 1..Len(df) : Greater(df[i].distance_km, prev_max[i])}
        Pick[n \in 0..Len(df)] ==
            IF n = 0 THEN <<>>
            ELSE IF n \in kept THEN Append(Pick[n - 1], n) ELSE Pick[n - 1]
        at == Pick[Len(df)]
    IN  [e \in 1..Len(at) |->
            LET i == at[e]
                time_diff == IF e = 1 THEN NaN
                             ELSE Num(HoursBetween(PrevDate(df, at, e), df[i].date))
                distance_diff == Num((max_distance[i].v - prev_max[i].v) * 1000)
            IN  [date |-> df[i].date,
                 satellite |-> df[i].satellite,
                 distance_km |-> df[i].distance_km,
                 max_distance |-> max_distance[i],
                 prev_max |-> prev_max[i],
                 time_diff |-> time_diff,
                 distance_diff |-> distance_diff,
                 speed |-> Divide(distance_diff, time_diff)]]

-----------------------------------------------------------------------------
(* LavaFlow_mapper: configuration, load_and_tag_data, the filter and the    *)
(* distance of get_layout.  track is in tenths, frp a whole number; a time is *)
(* [year, month, day, hhmm]; distance_km is a fixed-point number in         *)
(* thousandths of a kilometre.                                              *)

\* a key that config.txt does not hold
Missing == [k |-> "missing", v |-> 0]

\* lines 21-42: a number is parsed, any other value stays a string (Text)
ValidCfg ==
    [lats_vent |-> Num(10), longs_vent |-> Num(20),
     filter_track |-> Num(2), filter_frp |-> Num(3),
     start_day_str |-> <<1, 1, 2024, 1200>>, end_day_str |-> <<2, 1, 2024, 1200>>]

CfgKeys == {"lats_vent", "longs_vent", "filter_track", "filter_frp"}

\* the valid configuration, or one key of it missing or not a number
Configs ==
    {ValidCfg} \cup {[ValidCfg EXCEPT ![key] = v] : key \in CfgKeys, v \in {Missing, Text}}

\* dict.get(key, default)
CfgGet(c, key, default) == IF c[key].k = "missing" THEN default ELSE c[key]

\* lines 75-76, 84-85: the values get_layout works with
LatsVent(c) == CfgGet(c, "lats_vent", Num(0))
LongsVent(c) == CfgGet(c, "longs_vent", Num(0))
FilterTrack(c) == CfgGet(c, "filter_track", Num(10))
FilterFrp(c) == CfgGet(c, "filter_frp", Num(0))

\* lines 51-53: the archive file each glob pattern matches
PatternFile(name) ==
    CASE name = "SNPP" -> "VIIRS_SNPP_NRT"
      [] name = "NOAA20" -> "VIIRS_NOAA20_NRT"
      [] name = "NOAA21" -> "VIIRS_NOAA21_NRT"

\* acq_date read month first
ParseStampMonthFirst(d, t) ==
    [year |-> d[3], month |-> d[1], day |-> d[2], hhmm |-> ReadInt(Zfill4(ReadInt(t)))]

\* lines 61-63: acq_date and the zero-padded acq_time parsed as %d/%m/%Y %H%M
ParseStamp(d, t) ==
    [year |-> d[3], month |-> d[2], day |-> d[1], hhmm |-> ReadInt(Zfill4(ReadInt(t)))]

\* lines 81-82: DD/MM/YYYY HH:MM parsed day first
ParseWindow(w) == [year |-> w[3], month |-> w[2], day |-> w[1], hhmm |-> w[4]]

\* timestamps in their order
Stamp(t) == 2400 * (372 * t.year + 31 * t.month + t.day) + t.hhmm

StrictlyBefore(a, b) == Stamp(a) < Stamp(b)
NotAfter(a, b) == Stamp(a) <= Stamp(b)

\* <= on two cells; a comparison with NaN is False
CellLe(a, b) == a.k = "num" /\ b.k = "num" /\ a.v <= b.v

\* lines 58-64: one archive row read and tagged for the pattern c
TagRow(r, c) ==
    [date |-> ParseStamp(r.acq_date, r.acq_time),
     satellite |-> c.name,
     source |-> c.id,
     latitude |-> ToNumeric(r.latitude),
     longitude |-> ToNumeric(r.longitude),
     frp |-> ToNumeric(r.frp),
     track |-> ToNumeric(r.track)]

\* lines 48-65: the archives of the three patterns, concatenated
LoadAndTagData(files) ==
    LET Part(i) ==
            LET f == files[PatternFile(configs[i].name)]
            IN  IF f.exists THEN [j \in 1..Len(f.rows) |-> TagRow(f.rows[j], configs[i])]
                ELSE <<>>
        All[n \in 0..Len(configs)] == IF n = 0 THEN <<>> ELSE All[n - 1] \o Part(n)
    IN  All[Len(configs)]

\* lines 84-86: the boolean mask of the filter
Passes(r, c) ==
    /\ CellLe(r.track, FilterTrack(c))
    /\ CellLe(FilterFrp(c), r.frp)
    /\ NotAfter(ParseWindow(c.start_day_str), r.date)
    /\ NotAfter(r.date, ParseWindow(c.end_day_str))

\* line 86: sort_values('date') with the default quicksort, which may leave
\* rows of equal timestamp in any order
SortOrders(rows) ==
    {o \in [1..Len(rows) -> 1..Len(rows)] :
        /\ \A i, j \in 1..Len(rows) : i # j => o[i] # o[j]
        /\ \A i \in 1..(Len(rows) - 1) :
              Stamp(rows[o[i]].date) <= Stamp(rows[o[i + 1]].date)}

RECURSIVE Newton(_, _)
Newton(n, r) == IF r <= n \div r THEN r ELSE Newton(n, (r + n \div r) \div 2)

\* floor of the square root
ISqrt(n) == IF n = 0 THEN 0 ELSE Newton(n, n)

\* the distance with the radius of the Earth in miles
HaversineMiles(lat1, lon1, lat2, lon2) ==
    IF lat2.k # "num" \/ lon2.k # "num" THEN NaN
    ELSE LET dlat == lat2.v - lat1.v
             dlon == lon2.v - lon1.v
         IN  Num((69093 * ISqrt(100 * (dlat * dlat + dlon * dlon))) \div 1000000)

\* lines 91-96: the haversine distance from the vent in metres, for the
\* coordinates of the model (within 0.01 degree of the equator and of each
\* other), where sin x = x, cos x = 1 and 0.00001 degree of arc is
\* 6371 km * pi / 180 * 0.00001 = 1.11195 m
Haversine(lat1, lon1, lat2, lon2) ==
    IF lat2.k # "num" \/ lon2.k # "num" THEN NaN
    ELSE LET dlat == lat2.v - lat1.v
             dlon == lon2.v - lon1.v
         IN  Num((111195 * ISqrt(100 * (dlat * dlat + dlon * dlon))) \div 1000000)

\* a run that ends in an exception instead of the early return
EmptyResultRaises(kind) == [kind |-> "raised", filtered |-> <<>>, written |-> FALSE]

\* lines 79, 88, or an exception: no file is written
EmptyResult(kind) == [kind |-> kind, filtered |-> <<>>, written |-> FALSE]

\* lines 73-107: the ways a get_layout call can end for the archives files
\* and the configuration c
Layouts(files, c) ==
    LET comb == LoadAndTagData(files)
        pass == SelectSeq(comb, LAMBDA r : Passes(r, c))
        Tagged(r) ==
            [date |-> r.date, satellite |-> r.satellite, source |-> r.source,
             latitude |-> r.latitude, longitude |-> r.longitude,
             frp |-> r.frp, track |-> r.track,
             distance_km |-> Haversine(LatsVent(c), LongsVent(c), r.latitude, r.longitude)]
    IN  IF comb = <<>> THEN {EmptyResult("no_files")}                     \* line 79
        ELSE IF FilterTrack(c).k # "num" \/ FilterFrp(c).k # "num"
        THEN {EmptyResult("raised")}           \* lines 84-85: TypeError of <=, >=
        ELSE IF pass = <<>> THEN {EmptyResult("no_anomalies")}            \* line 88
        ELSE IF LatsVent(c).k # "num" \/ LongsVent(c).k # "num"
        THEN {EmptyResult("raised")}           \* line 93: TypeError of str * float
        ELSE {[kind |-> "layout",
               filtered |-> [i \in 1..Len(pass) |-> Tagged(pass[o[i]])],
               written |-> TRUE] : o \in SortOrders(pass)}

NotRun == [kind |-> "not_run", filtered |-> <<>>, written |-> FALSE]

\* the archive rows of a mapper run, as the files hold them
TagBase ==
    [acq_date |-> <<1, 1, 2024>>, acq_time |-> Zfill4(1200), latitude |-> Num(10),
     longitude |-> Num(20), frp |-> Num(5), track |-> Num(1)]

TagAll ==
    [acq_date : {<<1, 1, 2024>>, <<2, 1, 2024>>},
     acq_time : {Zfill4(930), Zfill4(1200), Zfill4(1800)},
     latitude : {Num(10), Num(14), Text}, longitude : {Num(20), Text},
     frp : {Num(5), Num(0), Text}, track : {Num(1), Num(3), Text}]

\* rows that differ from TagBase in at most one column, a later row of the
\* same day at another place, and a row after the end of the window
TagRows ==
    {r \in TagAll : Cardinality({f \in Fields : r[f] # TagBase[f]}) <= 1}
    \cup {[TagBase EXCEPT !.acq_time = Zfill4(1800), !.latitude = Num(14)],
          [TagBase EXCEPT !.acq_date = <<2, 1, 2024>>, !.acq_time = Zfill4(1800)]}

\* the archives a mapper run finds: SNPP absent or with up to MaxArchived
\* rows; NOAA20 absent, with the header alone or with one row; NOAA21
\* absent; MODIS absent or with one row
TagArchives ==
    {[s \in SourceIds |->
        CASE s = "VIIRS_SNPP_NRT" -> a
          [] s = "VIIRS_NOAA20_NRT" -> b[1]
          [] s = "VIIRS_NOAA21_NRT" -> Absent
          [] s = "MODIS_NRT" -> b[2]] :
        a \in {Absent} \cup {[exists |-> TRUE, rows |-> x] : x \in SeqsUpTo(TagRows, MaxArchived)},
        b \in {<<Absent, Absent>>,
               <<Absent, [exists |-> TRUE, rows |-> <<TagBase>>]>>,
               <<[exists |-> TRUE, rows |-> <<>>], [exists |-> TRUE, rows |-> <<TagBase>>]>>,
               <<[exists |-> TRUE, rows |-> <<TagBase>>], [exists |-> TRUE, rows |-> <<TagBase>>]>>}}

NoFile == [exists |-> FALSE, rows |-> <<>>]
NotCalled == [kind |-> "not_called", rows |-> <<>>]

\* the tracker seen from a state in which the mapper has filtered its input
FlowInit ==
    /\ filtered \in Filtereds
    /\ dailyFile = NoFile
    /\ propFile = NoFile
    /\ speedOut = NotCalled
    /\ archive = [s \in SourceIds |-> Absent]
    /\ pc = "idle"
    /\ idx = 0
    /\ log = <<>>
    /\ last = NoIteration
    /\ upstream = [s \in SourceIds |-> {}]
    /\ runs = [w \in Workers |-> IdleRun]
    /\ cfg = ValidCfg
    /\ filteredFile = NoFile
    /\ mapOut = NotRun

\* LavaFlow_mapper lines 88-107: nothing is written for an empty filtered
SaveSummary ==
    /\ dailyFile' = IF filtered = <<>> THEN dailyFile
                    ELSE [exists |-> TRUE, rows |-> Summary(filtered)]
    /\ UNCHANGED <<filtered, propFile, speedOut>>
    /\ UNCHANGED <<archive, pc, idx, log, last, upstream, runs, cfg, filteredFile, mapOut>>

\* LavaFlow_speed lines 39-64
ProcessSpeedData ==
    /\ IF ~dailyFile.exists
       THEN /\ speedOut' = [kind |-> "None", rows |-> <<>>]
            /\ UNCHANGED propFile
       ELSE LET processed == PooledBreakthroughs(dailyFile.rows)
            IN  /\ speedOut' = [kind |-> "frame", rows |-> processed]
                /\ propFile' = IF processed # <<>>
                               THEN [exists |-> TRUE, rows |-> processed]
                               ELSE propFile
    /\ UNCHANGED <<filtered, dailyFile>>
    /\ UNCHANGED <<archive, pc, idx, log, last, upstream, runs, cfg, filteredFile, mapOut>>

FlowNext == SaveSummary \/ ProcessSpeedData

\* data is None raising at data.empty instead of being tested first
SpeedLayoutEmptyOnly(data) ==
    IF data.kind = "None" THEN "raised"
    ELSE IF data.rows = <<>> THEN "no_propagation_data" ELSE "report"

\* LavaFlow_speed lines 70-78: what get_layout shows for the tracker's result
SpeedLayout(data) ==
    IF data.kind = "None" \/ data.rows = <<>> THEN "no_propagation_data" ELSE "report"

\* summary files the tracker can be given: rows of one satellite at three
\* times, ten hours or a day apart, at distances in metres
SpeedRows ==
    [date_only : {<<2024, 1, 1, 2>>, <<2024, 1, 1, 12>>, <<2024, 1, 2>>},
     satellite : {"SNPP"}, distance_km : {Num(0), Num(1000), Num(1500), NaN},
     frp : {Num(5)}, latitude : {Num(10)}, longitude : {Num(20)}, source : {1}]
SpeedFiles ==
    {NoFile} \cup {[exists |-> TRUE, rows |-> x] : x \in SeqsUpTo(SpeedRows, MaxFiltered)}

\* the tracker as a function of the summary file it finds
SpeedInit ==
    /\ dailyFile \in SpeedFiles
    /\ filtered = <<>>
    /\ propFile = NoFile
    /\ speedOut = NotCalled
    /\ archive = [s \in SourceIds |-> Absent]
    /\ pc = "idle"
    /\ idx = 0
    /\ log = <<>>
    /\ last = NoIteration
    /\ upstream = [s \in SourceIds |-> {}]
    /\ runs = [w \in Workers |-> IdleRun]
    /\ cfg = ValidCfg
    /\ filteredFile = NoFile
    /\ mapOut = NotRun

SpeedNext == ProcessSpeedData

\* filtered detections of one satellite over three days
TrackDays == {[year |-> 2024, month |-> 1, day |-> d] : d \in {1, 2, 3}}
TrackRows == [date : TrackDays, satellite : {"SNPP"}, distance_km : {Num(1), Num(2), Num(3)},
              frp : {Num(5)}, latitude : {Num(10)}, longitude : {Num(20)}]
TrackFiltereds == {f \in SeqsUpTo(TrackRows, MaxFiltered) : SortedByDate(f)}

\* the tracker seen from a state in which the mapper has filtered such input
TrackInit ==
    /\ filtered \in TrackFiltereds
    /\ dailyFile = NoFile
    /\ propFile = NoFile
    /\ speedOut = NotCalled
    /\ archive = [s \in SourceIds |-> Absent]
    /\ pc = "idle"
    /\ idx = 0
    /\ log = <<>>
    /\ last = NoIteration
    /\ upstream = [s \in SourceIds |-> {}]
    /\ runs = [w \in Workers |-> IdleRun]
    /\ cfg = ValidCfg
    /\ filteredFile = NoFile
    /\ mapOut = NotRun

-----------------------------------------------------------------------------
(* Two process_download calls running at once: main_dashboard.dl_cb calls   *)
(* process_download for every click and holds no lock, and neither does     *)
(* process_download.  A call can be overtaken at its blocking calls: the    *)
(* request (line 109), the read of the archive (lines 124-127) and the      *)
(* write (line 147).                                                        *)

\* lines 106, 113, 118, 150-153 for the call r
RunAdvance(r) ==
    IF r.idx = Len(sources)
    THEN [r EXCEPT !.pc = "done", !.idx = 0, !.resp = NoResponse, !.df_hist = Absent]
    ELSE [r EXCEPT !.pc = "fetch", !.idx = r.idx + 1, !.resp = NoResponse, !.df_hist = Absent]

\* main_dashboard lines 388-391 and FIRMS_download lines 85-105
RunStart(w) ==
    /\ runs[w].pc = "idle"
    /\ \E preludeOk \in BOOLEAN :
        runs' = [runs EXCEPT ![w].pc = IF preludeOk THEN "fetch" ELSE "raised",
                             ![w].idx = IF preludeOk THEN 1 ELSE 0]
    /\ UNCHANGED <<archive, pc, idx, log, last, upstream>>
    /\ UNCHANGED <<filtered, dailyFile, propFile, speedOut, cfg, filteredFile, mapOut>>

\* lines 109-122: the request and the parse of its body; a failure or an
\* empty batch is logged and the loop goes on
RunFetch(w) ==
    /\ runs[w].pc = "fetch"
    /\ \E resp \in ConcResponses(sources[runs[w].idx]) :
        LET r == runs[w]
            src == sources[r.idx]
        IN  IF resp.kind = "csv" /\ resp.rows # <<>>
            THEN runs' = [runs EXCEPT ![w].pc = "read", ![w].resp = resp]
            ELSE runs' = [runs EXCEPT ![w] =
                    RunAdvance([r EXCEPT !.log = Append(r.log, TryBlock(src, Absent, resp).entry)])]
    /\ UNCHANGED <<archive, pc, idx, log, last, upstream>>
    /\ UNCHANGED <<filtered, dailyFile, propFile, speedOut, cfg, filteredFile, mapOut>>

\* lines 124-127: os.path.exists and pd.read_csv of the archive
RunRead(w) ==
    /\ runs[w].pc = "read"
    /\ runs' = [runs EXCEPT ![w].pc = "write",
                            ![w].df_hist = archive[filename(sources[runs[w].idx])]]
    /\ UNCHANGED <<archive, pc, idx, log, last, upstream>>
    /\ UNCHANGED <<filtered, dailyFile, propFile, speedOut, cfg, filteredFile, mapOut>>

\* lines 129-148: the merge with the archive as it was read, and to_csv
RunWrite(w) ==
    /\ runs[w].pc = "write"
    /\ LET r == runs[w]
           src == sources[r.idx]
           out == TryBlock(src, r.df_hist, r.resp)
       IN  /\ archive' = [archive EXCEPT ![filename(src)] = out.file]
           /\ runs' = [runs EXCEPT ![w] =
                  RunAdvance([r EXCEPT !.log = Append(r.log, out.entry),
                                       !.merged[src] = r.resp.rows])]
    /\ UNCHANGED <<pc, idx, log, last, upstream>>
    /\ UNCHANGED <<filtered, dailyFile, propFile, speedOut, cfg, filteredFile, mapOut>>

ConcNext == \E w \in Workers : RunStart(w) \/ RunFetch(w) \/ RunRead(w) \/ RunWrite(w)

ConcInit ==
    /\ archive = ConcArchive0
    /\ upstream = ConcUpstream
    /\ runs = [w \in Workers |-> IdleRun]
    /\ cfg = ValidCfg
    /\ filteredFile = NoFile
    /\ mapOut = NotRun
    /\ pc = "idle"
    /\ idx = 0
    /\ log = <<>>
    /\ last = NoIteration
    /\ filtered = <<>>
    /\ dailyFile = NoFile
    /\ propFile = NoFile
    /\ speedOut = NotCalled

-----------------------------------------------------------------------------
(* LavaFlow_mapper.get_layout as a step *)

TagInit ==
    /\ archive \in TagArchives
    /\ cfg \in Configs
    /\ filtered = <<>>
    /\ filteredFile = NoFile
    /\ dailyFile = NoFile
    /\ mapOut = NotRun
    /\ propFile = NoFile
    /\ speedOut = NotCalled
    /\ pc = "idle"
    /\ idx = 0
    /\ log = <<>>
    /\ last = NoIteration
    /\ upstream = [s \in SourceIds |-> {}]
    /\ runs = [w \in Workers |-> IdleRun]

\* lines 71-107: filter_VIIRS_combined.csv and max_distance_per_day_VIIRS.csv
\* are written only by a run that gets past line 96
GetLayout ==
    /\ \E out \in Layouts(archive, cfg) :
        /\ mapOut' = out
        /\ filtered' = out.filtered
        /\ filteredFile' = IF out.written THEN [exists |-> TRUE, rows |-> out.filtered]
                           ELSE filteredFile
        /\ dailyFile' = IF out.written THEN [exists |-> TRUE, rows |-> Summary(out.filtered)]
                        ELSE dailyFile
    /\ UNCHANGED <<cfg, propFile, speedOut>>
    /\ UNCHANGED <<archive, pc, idx, log, last, upstream, runs>>

TagNext == GetLayout

-----------------------------------------------------------------------------
(* The pipeline: a download, the mapper and the tracker on the same files, *)
(* and the configuration saved from the dashboard between their runs       *)

\* what the first source holds: detections of three days north of the
\* point (0, 0), one east of it and one on it
PipeRows ==
    {[acq_date |-> <<2024, 1, 1>>, acq_time |-> 0, latitude |-> Num(100),
      longitude |-> Num(0), frp |-> Num(10), track |-> Num(3)],
     [acq_date |-> <<2024, 1, 2>>, acq_time |-> 1200, latitude |-> Num(200),
      longitude |-> Num(0), frp |-> Num(20), track |-> Num(3)],
     [acq_date |-> <<2024, 1, 2>>, acq_time |-> 1200, latitude |-> Num(0),
      longitude |-> Num(1000), frp |-> Num(20), track |-> Num(3)],
     [acq_date |-> <<2024, 1, 3>>, acq_time |-> 1200, latitude |-> Num(0),
      longitude |-> Num(0), frp |-> Num(20), track |-> Num(3)]}

PipeUpstream == [s \in SourceIds |-> IF s = sources[1] THEN PipeRows ELSE {}]

\* main_dashboard lines 343-377: config.txt as save_all writes it, every key
\* present and the window at 00:00 of its days
PipeCfg ==
    [lats_vent |-> Num(0), longs_vent |-> Num(0),
     filter_track |-> Num(5), filter_frp |-> Num(0),
     start_day_str |-> <<1, 1, 2024, 0>>, end_day_str |-> <<3, 1, 2024, 0>>]

\* the same with a higher FRP threshold, or with a later window
PipeCfgs ==
    {PipeCfg,
     [PipeCfg EXCEPT !.filter_frp = Num(50)],
     [PipeCfg EXCEPT !.start_day_str = <<3, 1, 2024, 0>>, !.end_day_str = <<4, 1, 2024, 0>>]}

PipeInit ==
    /\ archive = [s \in SourceIds |-> Absent]
    /\ pc = "idle"
    /\ idx = 0
    /\ log = <<>>
    /\ last = NoIteration
    /\ upstream = PipeUpstream
    /\ cfg = PipeCfg
    /\ filtered = <<>>
    /\ filteredFile = NoFile
    /\ dailyFile = NoFile
    /\ mapOut = NotRun
    /\ propFile = NoFile
    /\ speedOut = NotCalled
    /\ runs = [w \in Workers |-> IdleRun]

\* the first download of a session
FirstDownload == pc = "idle" /\ StartDownload

\* main_dashboard lines 343-377: save_all rewrites config.txt
SaveConfig ==
    /\ cfg' \in PipeCfgs
    /\ UNCHANGED <<archive, pc, idx, log, last, upstream, filtered, dailyFile, propFile,
                 speedOut, runs, filteredFile, mapOut>>

PipeNext == FirstDownload \/ ProcessSource \/ GetLayout \/ ProcessSpeedData

RunsNext == PipeNext \/ SaveConfig

vars == <<archive, pc, idx, log, last, upstream, filtered, dailyFile, propFile, speedOut,
          runs, cfg, filteredFile, mapOut>>

Init ==
    /\ DlInit
    /\ filtered = <<>>
    /\ dailyFile = NoFile
    /\ propFile = NoFile
    /\ speedOut = NotCalled
    /\ runs = [w \in Workers |-> IdleRun]
    /\ cfg = ValidCfg
    /\ filteredFile = NoFile
    /\ mapOut = NotRun
Next == DlNext
Spec == Init /\ [][Next]_vars

SpecFlow == FlowInit /\ [][FlowNext]_vars

SpecConc == ConcInit /\ [][ConcNext]_vars

SpecTag == TagInit /\ [][TagNext]_vars

SpecTrack == TrackInit /\ [][FlowNext]_vars

SpecSpeed == SpeedInit /\ [][SpeedNext]_vars

SpecPipe == PipeInit /\ [][PipeNext]_vars

SpecRuns == PipeInit /\ [][RunsNext]_vars

-----------------------------------------------------------------------------
(* Properties of the merge.  The coordinates of the model are never halfway *)
(* between two 4-decimal values, so "rounded to 4 decimals" is the nearest  *)
(* multiple of 10 units.                                                    *)

RecordSet(file) == {file.rows[i] : i \in 1..Len(file.rows)}

\* a wire row as the archive file holds it: DD/MM/YYYY and zero-padded HHMM
Persisted(b) ==
    [b EXCEPT !.acq_date = <<b.acq_date[3], b.acq_date[2], b.acq_date[1]>>,
              !.acq_time = Zfill4(b.acq_time)]

SameRounded(a, b) ==
    IF a.k = "num" /\ b.k = "num" THEN (a.v + 5) \div 10 = (b.v + 5) \div 10 ELSE a = b

SameKey(r1, r2) ==
    /\ SameRounded(r1.latitude, r2.latitude)
    /\ SameRounded(r1.longitude, r2.longitude)
    /\ r1.acq_date = r2.acq_date
    /\ r1.acq_time = r2.acq_time

Abs(x) == IF x < 0 THEN 0 - x ELSE x

\* coordinates less than 0.00005 degree (5 units) apart
Near(r1, r2) ==
    /\ r1.latitude.k = "num" /\ r2.latitude.k = "num"
    /\ r1.longitude.k = "num" /\ r2.longitude.k = "num"
    /\ Abs(r1.latitude.v - r2.latitude.v) < 5
    /\ Abs(r1.longitude.v - r2.longitude.v) < 5
    /\ r1.acq_date = r2.acq_date
    /\ r1.acq_time = r2.acq_time

Unparsable(b) == \E f \in {"latitude", "longitude", "frp", "track"} : b[f].k # "num"

\* the last iteration merged a non-empty batch
Merged == last.resp.kind = "csv" /\ last.resp.rows # <<>>
Failed == last.resp.kind \in FailureKinds
EmptyBatch == last.resp.kind = "csv" /\ last.resp.rows = <<>>
After == archive[last.src]
Batch == {last.resp.rows[i] : i \in 1..Len(last.resp.rows)}
BatchDates == {Persisted(b).acq_date : b \in Batch}
LastEntry == log[Len(log)]

\* C1: in every reachable state, the first merge that creates an archive
\* included, no two records of a persisted archive share the dedup key
\* (latitude and longitude rounded to 4 decimals, date, time).
C1_NoSharedDedupKey ==
    \A s \in SourceIds :
        \A i, j \in 1..Len(archive[s].rows) :
            i < j => ~SameKey(archive[s].rows[i], archive[s].rows[j])

\* C2: merging the batch of the last merge once more into the archive that
\* merge left gives an archive with the same set of records.
C2_MergeIdempotent ==
    Merged => RecordSet(ToCsv(MergeFinal(After, last.resp.rows))) = RecordSet(After)

\* C3: after the merge of a non-empty batch into an existing archive, every
\* archived record whose date occurs in the batch is a record of the batch.
C3_RefreshWindow ==
    (Merged /\ last.before.exists) =>
        \A r \in RecordSet(After) :
            r.acq_date \in BatchDates => r \in {Persisted(b) : b \in Batch}

\* a merge whose batch holds fewer records of a date than the archive did,
\* and after which a record archived for that date is gone
C3_Witness ==
    /\ Merged /\ last.before.exists
    /\ \E d \in BatchDates :
        /\ Cardinality({i \in 1..Len(last.before.rows) : last.before.rows[i].acq_date = d})
             > Cardinality({i \in 1..Len(last.resp.rows) :
                              Persisted(last.resp.rows[i]).acq_date = d})
        /\ \E r \in RecordSet(last.before) :
             r.acq_date = d /\ r \notin RecordSet(After)

\* C4: after a merge (here: into an existing archive, where the merge
\* deduplicates at all), no two archived records of the same date and time
\* have latitudes and longitudes less than 0.00005 degree apart.
C4_NearCoordinatesCollapse ==
    (Merged /\ last.before.exists) =>
        \A i, j \in 1..Len(After.rows) :
            i < j => ~Near(After.rows[i], After.rows[j])

C8_EverySourceLogged ==
    /\ pc = "loop" => Len(log) = idx - 1
    /\ pc = "done" => Len(log) = Len(sources)
    /\ \A i \in 1..Len(log) : log[i].src = sources[i]
    /\ pc = "raised" => log = <<>>

\* a finished run whose first three sources failed or had no data and whose
\* last source merged
C8_Witness ==
    /\ pc = "done"
    /\ [i \in 1..Len(log) |-> log[i].kind] = <<"error", "api_error", "no_data", "merged">>

\* C9: after an iteration whose batch has no rows, the archive of the source
\* is what it was (absent if it was absent) and the last log entry is the
\* no-data outcome with zero records.
C9_EmptyBatchLeavesArchive ==
    EmptyBatch =>
        /\ After = last.before
        /\ LastEntry = LogEntry(last.src, "no_data", 0, 0)

\* an empty batch for a source whose archive exists and holds a record twice
C9_Witness ==
    /\ EmptyBatch
    /\ last.before.exists
    /\ Len(last.before.rows) > Cardinality(RecordSet(last.before))

\* C10: after a merge, no batch row with an unparsable latitude, longitude,
\* frp or track is in the archive, and every other batch row is represented
\* in it by a record of its dedup key.
C10_UnparsableRowsDropped ==
    Merged =>
        /\ \A b \in Batch : Unparsable(b) => Persisted(b) \notin RecordSet(After)
        /\ \A b \in Batch : ~Unparsable(b) =>
               \E r \in RecordSet(After) : SameKey(r, Persisted(b))

\* C11: after a merge, the number the log entry reports as merged is at most
\* the number of archived records that are rows of the batch.
C11_MergedCountWithinArchive ==
    Merged =>
        LastEntry.batch <=
            Cardinality({i \in 1..Len(After.rows) :
                            After.rows[i] \in {Persisted(b) : b \in Batch}})

\* C12: an iteration of the loop leaves the archive of every source other
\* than its own as it was, whatever its outcome, and the archive it leaves
\* for its own source is the result of its try block on that source's
\* archive alone.
C12_OtherArchivesUntouched ==
    /\ [][pc = "loop" =>
            \A s \in SourceIds \ {sources[idx]} : archive'[s] = archive[s]]_vars
    /\ [](last.src # "" =>
            After = TryBlock(last.src, last.before, last.resp).file)

\* a merge that changed the archive of a later source, while the archive of
\* the first source holds records
C12_Witness ==
    /\ Merged
    /\ last.src # sources[1]
    /\ After # last.before
    /\ archive[sources[1]].rows # <<>>


\* C30: after a merge into an existing archive, every record the archive
\* held for a date that does not occur in the batch is still in it.
C30_OtherDatesKept ==
    (Merged /\ last.before.exists) =>
        \A r \in RecordSet(last.before) :
            r.acq_date \notin BatchDates => r \in RecordSet(After)

-----------------------------------------------------------------------------
(* Properties of the tracker *)

Events == speedOut.rows
Tracked == speedOut.kind = "frame"

\* C5: the dates of the emitted events, in output order, are strictly
\* increasing: no two events carry the same date.
C5_DatesStrictlyIncreasing ==
    Tracked =>
        \A e \in 1..(Len(Events) - 1) :
            Ordinal(Events[e].date) < Ordinal(Events[e + 1].date)

\* C6: the cumulative maximum distances of the emitted events, in output
\* order, are numbers and strictly increasing, in the returned frame and in
\* the file written from it.
C6_CumulativeMaxStrictlyIncreasing ==
    /\ Tracked =>
        /\ \A e \in 1..Len(Events) : Events[e].max_distance.k = "num"
        /\ \A e \in 1..(Len(Events) - 1) :
              Events[e].max_distance.v < Events[e + 1].max_distance.v
    /\ \A e \in 1..(Len(propFile.rows) - 1) :
          propFile.rows[e].max_distance.v < propFile.rows[e + 1].max_distance.v

\* two events out of a summary of three rows, one of them without a distance
C6_Witness ==
    /\ Tracked
    /\ Len(Events) = 2
    /\ Len(dailyFile.rows) = 3
    /\ \E i \in 1..Len(dailyFile.rows) : dailyFile.rows[i].distance_km = NaN

\* C20: the time_diff of every emitted event but the first is the number of
\* hours from the date of the event emitted before it to its own date.
C20_TimeSincePreviousEvent ==
    Tracked =>
        \A e \in 2..Len(Events) :
            Events[e].time_diff =
                Num(24 * (Ordinal(Events[e].date) - Ordinal(Events[e - 1].date)))

\* two events two days apart, with a summary row of the day between them
\* that is no event
C20_Witness ==
    /\ Tracked
    /\ Len(Events) = 2
    /\ Events[2].time_diff = Num(48)
    /\ \E i \in 1..Len(dailyFile.rows) :
        /\ Ordinal(Events[1].date) < Ordinal(ParseIso(dailyFile.rows[i].date_only))
        /\ Ordinal(ParseIso(dailyFile.rows[i].date_only)) < Ordinal(Events[2].date)

\* C21: the first event of every non-empty tracker output, returned or
\* written, has NaN as its time_diff and NaN as its speed.
C21_FirstEventUndefined ==
    /\ (Tracked /\ Events # <<>>) =>
          Events[1].time_diff = NaN /\ Events[1].speed = NaN
    /\ propFile.rows # <<>> =>
          propFile.rows[1].time_diff = NaN /\ propFile.rows[1].speed = NaN

\* an output of two events whose first covers a distance
C21_Witness ==
    /\ Tracked
    /\ Len(Events) = 2
    /\ Events[1].distance_diff.v > 0
    /\ propFile.rows = Events

\* the sum of the distance_diff of the first n events
DiffSum(n) ==
    LET S[m \in 0..n] == IF m = 0 THEN 0 ELSE S[m - 1] + Events[m].distance_diff.v
    IN  S[n]

\* C23: every emitted event has distance_diff = (max_distance - prev_max) *
\* 1000 > 0, with prev_max 0 for the first event and the max_distance of the
\* event emitted before it for a later one; the distance_diff of all events
\* sum to 1000 times the last max_distance.
C23_DistanceDiffChain ==
    Tracked =>
        /\ \A e \in 1..Len(Events) :
              /\ Events[e].distance_diff =
                    Num((Events[e].max_distance.v - Events[e].prev_max.v) * 1000)
              /\ Events[e].distance_diff.v > 0
              /\ Events[e].prev_max =
                    IF e = 1 THEN Num(0) ELSE Events[e - 1].max_distance
        /\ Events # <<>> =>
              DiffSum(Len(Events)) = 1000 * Events[Len(Events)].max_distance.v

\* the reference loop over the summary rows in date order: a running
\* cumulative_max that starts at 0; a row is emitted iff its distance is
\* greater, with previous_max the running maximum before it
ReferenceLoop(rows) ==
    LET df == SortValuesByDate([i \in 1..Len(rows) |->
                  [date |-> ParseDateOnly(rows[i].date_only),
                   distance_km |-> rows[i].distance_km,
                   satellite |-> rows[i].satellite]])
        Loop[n \in 0..Len(df)] ==
            IF n = 0 THEN [cumulative_max |-> 0, out |-> <<>>]
            ELSE LET st == Loop[n - 1]
                     d == df[n].distance_km
                 IN  IF d.k = "num" /\ d.v > st.cumulative_max
                     THEN [cumulative_max |-> d.v,
                           out |-> Append(st.out,
                                      [date |-> df[n].date, satellite |-> df[n].satellite,
                                       prev_max |-> Num(st.cumulative_max),
                                       max_distance |-> d])]
                     ELSE st
    IN  Loop[Len(df)].out

\* C27: the events of the tracker, with their prev_max and max_distance, are
\* those of the reference loop over the summary the tracker read.
C27_MatchesReferenceLoop ==
    Tracked =>
        [e \in 1..Len(Events) |->
            [date |-> Events[e].date, satellite |-> Events[e].satellite,
             prev_max |-> Events[e].prev_max, max_distance |-> Events[e].max_distance]]
        = ReferenceLoop(dailyFile.rows)

\* C22: the speed of every emitted event after the first is its
\* distance_diff over its time_diff (inf, as float division gives, when the
\* time_diff is 0); an event at 1.5 km that follows an event at 1.0 km by 10
\* hours has the speed 50 m/h.
C22_SpeedIsDistanceOverTime ==
    Tracked =>
        \A e \in 2..Len(Events) :
            LET sp == Events[e].speed
                dd == Events[e].distance_diff
                td == Events[e].time_diff
            IN  /\ dd.k = "num" /\ td.k = "num"
                /\ td.v # 0 => sp.k = "ratio" /\ sp.v[1] = dd.v /\ sp.v[2] = td.v
                /\ td.v = 0 => sp.k = "inf"
                /\ (/\ Events[e - 1].max_distance = Num(1000)
                    /\ Events[e].max_distance = Num(1500)
                    /\ td = Num(10)) =>
                      sp.k = "ratio" /\ sp.v[1] = 50 * 1000 * sp.v[2]

\* events at 1.0 km and 1.5 km, ten hours apart
C22_Witness ==
    /\ Tracked
    /\ Len(Events) = 2
    /\ Events[1].max_distance = Num(1000)
    /\ Events[2].max_distance = Num(1500)
    /\ Events[2].time_diff = Num(10)

\* C24: a tracker run that finds no summary file returns None without
\* writing the propagation file, and get_layout shows for None the message
\* that there is no propagation data.
C24_MissingSummary ==
    /\ [](speedOut.kind = "None" =>
            speedOut.rows = <<>> /\ SpeedLayout(speedOut) = "no_propagation_data")
    /\ [][(~dailyFile.exists /\ ProcessSpeedData) =>
            speedOut'.kind = "None" /\ propFile' = propFile]_vars

\* a run without a summary file
C24_Witness ==
    /\ speedOut.kind = "None"
    /\ ~dailyFile.exists

-----------------------------------------------------------------------------
(* Properties of the pipeline *)

\* the archive of the first source after the merge of a batch of two
\* detections, of 1 and 2 January 2024 at latitudes 0.001 and 0.002, into an
\* empty archive
TwoDetections ==
    LET d1 == [acq_date |-> <<2024, 1, 1>>, acq_time |-> 0, latitude |-> Num(100),
               longitude |-> Num(0), frp |-> Num(10), track |-> Num(3)]
        d2 == [acq_date |-> <<2024, 1, 2>>, acq_time |-> 1200, latitude |-> Num(200),
               longitude |-> Num(0), frp |-> Num(20), track |-> Num(3)]
    IN  /\ log # <<>>
        /\ log[1] = LogEntry(sources[1], "merged", 2, 2)
        /\ archive[sources[1]].exists
        /\ RecordSet(archive[sources[1]]) = {WriteRow(PrepareRow(d1)), WriteRow(PrepareRow(d2))}
        /\ \A s \in SourceIds \ {sources[1]} : ~archive[s].exists
        /\ cfg = PipeCfg

\* C25: after the merge of the two detections into an empty archive, a
\* mapper run with the reference (0, 0), filter_track 0.5 and filter_frp 0
\* keeps both detections and writes two summary rows of increasing distance,
\* and a tracker run on that summary emits two events, the second with a
\* finite, positive speed.
C25_EndToEnd ==
    /\ [][(TwoDetections /\ GetLayout) =>
            /\ mapOut'.kind = "layout"
            /\ Len(filteredFile'.rows) = 2
            /\ Len(dailyFile'.rows) = 2
            /\ dailyFile'.rows[1].distance_km.k = "num"
            /\ dailyFile'.rows[2].distance_km.k = "num"
            /\ dailyFile'.rows[1].distance_km.v < dailyFile'.rows[2].distance_km.v]_vars
    /\ [][(TwoDetections /\ dailyFile.exists /\ ProcessSpeedData) =>
            /\ speedOut'.kind = "frame"
            /\ Len(speedOut'.rows) = 2
            /\ propFile'.rows = speedOut'.rows
            /\ speedOut'.rows[2].speed.k = "ratio"
            /\ speedOut'.rows[2].speed.v[1] > 0
            /\ speedOut'.rows[2].speed.v[2] > 0]_vars

\* the three stages have run on the two detections
C25_Witness ==
    /\ TwoDetections
    /\ mapOut.kind = "layout"
    /\ Len(filteredFile.rows) = 2
    /\ speedOut.kind = "frame"
    /\ Len(propFile.rows) = 2

C28_MapperOutputsCurrent ==
    /\ mapOut.kind = "layout" =>
          /\ filteredFile = [exists |-> TRUE, rows |-> mapOut.filtered]
          /\ dailyFile = [exists |-> TRUE, rows |-> Summary(mapOut.filtered)]
    /\ mapOut.kind \in {"no_files", "no_anomalies"} =>
          ~filteredFile.exists /\ ~dailyFile.exists

\* C29: after a tracker run, LavaFlow_propagation.csv holds the events this
\* run computed, or nothing when the run found no breakthrough or no summary
\* file.
C29_TrackerOutputCurrent ==
    /\ (speedOut.kind = "frame" /\ speedOut.rows # <<>>) =>
          propFile = [exists |-> TRUE, rows |-> speedOut.rows]
    /\ (speedOut.kind = "None" \/ (speedOut.kind = "frame" /\ speedOut.rows = <<>>)) =>
          ~propFile.exists

-----------------------------------------------------------------------------
(* Properties of overlapping downloads *)

\* the call w has read the archive of s and has not yet written it
Between(w, s) == runs[w].pc = "write" /\ sources[runs[w].idx] = s

\* the archive after the merge of rows into file; no rows, no merge
ApplyMerge(file, rows) == IF rows = <<>> THEN file ELSE ToCsv(MergeFinal(file, rows))

OneWriter == \A s \in SourceIds : ~(Between(1, s) /\ Between(2, s))

Serialised ==
    (\A w \in Workers : runs[w].pc = "done") =>
        \A s \in SourceIds :
            \E v, w \in Workers :
                /\ v # w
                /\ LET one == ApplyMerge(ConcArchive0[s], runs[v].merged[s])
                       two == ApplyMerge(one, runs[w].merged[s])
                   IN  /\ archive[s].exists = two.exists
                       /\ RecordSet(archive[s]) = RecordSet(two)

\* C13: at no moment are both calls between the read and the write of the
\* archive of one source, and when both calls are done every archive holds
\* the records of the two merges applied one after the other in some order.
C13_SingleWriter == OneWriter /\ Serialised

-----------------------------------------------------------------------------
(* Properties of the mapper *)

Ran == mapOut.kind # "not_run"
Laid == mapOut.kind = "layout"

\* what load_and_tag_data read in the run
Comb == LoadAndTagData(archive)
CombRows == {Comb[i] : i \in 1..Len(Comb)}

\* a filtered record without its distance
Untagged(r) ==
    [date |-> r.date, satellite |-> r.satellite, source |-> r.source,
     latitude |-> r.latitude, longitude |-> r.longitude, frp |-> r.frp, track |-> r.track]

\* the filter written out cell by cell, for thresholds that are numbers
InFilter(r) ==
    /\ r.track.k = "num" /\ r.track.v <= cfg.filter_track.v
    /\ r.frp.k = "num" /\ r.frp.v >= cfg.filter_frp.v
    /\ Stamp(ParseWindow(cfg.start_day_str)) <= Stamp(r.date)
    /\ Stamp(r.date) <= Stamp(ParseWindow(cfg.end_day_str))

\* the filtered records of the (date, satellite) group of a summary row
GroupOf(row) ==
    {filtered[i] : i \in {j \in 1..Len(filtered) :
        IsoFormat(filtered[j].date) = row.date_only /\ filtered[j].satellite = row.satellite}}

DailyRows == {dailyFile.rows[i] : i \in 1..Len(dailyFile.rows)}

\* C14: after a run with numeric thresholds that got to the filter, the
\* filtered records are exactly the records read with track <= max_track,
\* frp >= min_frp and start <= timestamp <= end, each as often as it was
\* read; a record with a missing track or frp is not among them; and the
\* file written holds these records.
C14_FilterPredicate ==
    (mapOut.kind \in {"layout", "no_anomalies"}
        /\ cfg.filter_track.k = "num" /\ cfg.filter_frp.k = "num") =>
        /\ {Untagged(filtered[i]) : i \in 1..Len(filtered)} = {r \in CombRows : InFilter(r)}
        /\ Len(filtered) = Cardinality({i \in 1..Len(Comb) : InFilter(Comb[i])})
        /\ \A i \in 1..Len(filtered) :
              filtered[i].track.k = "num" /\ filtered[i].frp.k = "num"
        /\ Laid => filteredFile.rows = filtered

\* a run that kept a record at the start and one at the end of the window
\* and dropped a record without a track
C14_Witness ==
    /\ Laid
    /\ \E i \in 1..Len(filtered) : filtered[i].date = ParseWindow(cfg.start_day_str)
    /\ \E i \in 1..Len(filtered) : filtered[i].date = ParseWindow(cfg.end_day_str)
    /\ \E r \in CombRows : r.track.k # "num"

\* C15: the latitude and longitude of every summary row are those of one
\* filtered record of its group, a record with the earliest timestamp of
\* the group.
C15_RepresentativeFromEarliest ==
    Laid =>
        \A row \in DailyRows :
            \E r \in GroupOf(row) :
                /\ \A q \in GroupOf(row) : Stamp(r.date) <= Stamp(q.date)
                /\ row.latitude = r.latitude
                /\ row.longitude = r.longitude

\* C16: the summary has one row for each (date, satellite) pair that has a
\* filtered record, and no other row.
C16_OneRowPerGroup ==
    Laid =>
        LET keys == {<<IsoFormat(filtered[i].date), filtered[i].satellite>> :
                        i \in 1..Len(filtered)}
        IN  /\ {<<row.date_only, row.satellite>> : row \in DailyRows} = keys
            /\ Len(dailyFile.rows) = Cardinality(keys)

\* three filtered records in two groups of one date
C16_Witness ==
    /\ Laid
    /\ Len(filtered) = 3
    /\ Len(dailyFile.rows) = 2
    /\ dailyFile.rows[1].date_only = dailyFile.rows[2].date_only

\* C17: the distance of a summary row is the largest distance of its group
\* and its frp the largest frp: no record of the group has a larger one, and
\* the value is that of a record of the group.
C17_RowHoldsGroupMaxima ==
    Laid =>
        \A row \in DailyRows :
            /\ \A r \in GroupOf(row) :
                  /\ r.distance_km.k = "num" =>
                        row.distance_km.k = "num" /\ r.distance_km.v <= row.distance_km.v
                  /\ r.frp.k = "num" => row.frp.k = "num" /\ r.frp.v <= row.frp.v
            /\ row.distance_km.k = "num" =>
                  \E r \in GroupOf(row) : r.distance_km = row.distance_km
            /\ row.frp.k = "num" => \E r \in GroupOf(row) : r.frp = row.frp

\* a group whose earliest record is nearer to the vent than a later one
C17_Witness ==
    /\ Laid
    /\ \E row \in DailyRows :
        \E r, q \in GroupOf(row) :
            /\ Stamp(r.date) < Stamp(q.date)
            /\ r.distance_km.k = "num" /\ q.distance_km.k = "num"
            /\ r.distance_km.v < q.distance_km.v

\* C18: a run with the reference point or a threshold missing or not a
\* number ends in an exception and neither output file exists.
C18_BadConfigFails ==
    (Ran /\ \E key \in CfgKeys : cfg[key].k # "num") =>
        /\ mapOut.kind = "raised"
        /\ ~filteredFile.exists
        /\ ~dailyFile.exists

====
